---- MODULE Spec2Model ----
(***************************************************************************)
(* The device-scoped diary entry store (Express routes over one SQLite     *)
(* table) and the browser client's offline-first reconciliation.           *)
(*                                                                         *)
(* Texts (dates, device ids) are kept in the state as short tokens; every  *)
(* test the code makes on them (regular expressions, ORDER BY, BETWEEN) is *)
(* computed on the token's characters.                                     *)
(***************************************************************************)
EXTENDS Integers, Sequences, FiniteSets, Bags, TLC

VARIABLES
    rows,       \* table diary_entries: set of [id, date, content, device_id]
    nextId,     \* next AUTOINCREMENT id
    pending,    \* bag of write requests between their existence check and their write
    resp,       \* the HTTP response produced by the last step (NoResp if none)
    written,    \* history: device ids under which a row was ever inserted
    deleted,    \* history: keys whose row a DELETE removed since their last save click
    variant,    \* which of the repository's client scripts runs in the browser
    isOnline,   \* the client's online flag
    cache,      \* localStorage, keys diary_<date>: date -> content
    currentDate,\* the date the editor shows, as formatDateKey gives it
    textarea,   \* diaryTextarea.textContent
    tasks,      \* the client's asynchronous operations, one per kind
    done,       \* the client operation that finished in the last step (NoDone if none)
    replay,     \* history: the reconnect replay since the last 'online' event
    server,     \* the server's configuration: the mounted router file and NODE_ENV
    storedDeviceId, \* localStorage, key deviceId ("" when absent)
    saveTimeout,\* the auto-save timer of the editor's input listener
    lastContent,\* the input listener's lastContent (script.js first script, part_000)
    burst,      \* history: the last edit (the date selected and the trimmed text), the
                \* time since it and the auto-saves fired since it
    modal       \* the history modal: the entries it lists, with their previews

timers == <<saveTimeout, lastContent, burst>>

vars == <<rows, nextId, pending, resp, written, deleted, variant, isOnline, cache, currentDate,
          textarea, tasks, done, replay, server, storedDeviceId, timers, modal>>

----------------------------------------------------------------------------
(* Bounds *)

MaxInFlight == 2
MaxId == 2
MaxQuiet == 4

----------------------------------------------------------------------------
(* Characters and texts *)

Digits == {"0", "1", "2", "3", "4", "5", "6", "7", "8", "9"}

HexDigits == Digits \cup {"a", "b", "c", "d", "e", "f", "A", "B", "C", "D", "E", "F"}

Rep(ch, n) == [i \in 1..n |-> ch]

UuidText(ch) ==
    Rep(ch, 8) \o <<"-">> \o Rep(ch, 4) \o <<"-", "4">> \o Rep(ch, 3)
        \o <<"-", "8">> \o Rep(ch, 3) \o <<"-">> \o Rep(ch, 12)

DevP == "11111111-1111-4111-8111-111111111111"
DevQ == "22222222-2222-4222-8222-222222222222"
DevMinted == "dddddddd-dddd-4ddd-8ddd-dddddddddddd"
DevMinted2 == "eeeeeeee-eeee-4eee-8eee-eeeeeeeeeeee"
DevGenerated == "cccccccc-cccc-4ccc-8ccc-cccccccccccc"
DevBad == "device-1"
NoDevice == ""

\* The texts the model uses, and the characters of each.
Texts ==
    {"", "2024-01-01", "2024-01-02", "2024-13-40", "2024-1-1", "2024-01-011",
     "today", DevP, DevQ, DevMinted, DevMinted2, DevGenerated, DevBad, " ", "a", "b", " b",
     "x*100", "x*101"}

Chars ==
    [tok \in Texts |->
        CASE tok = "2024-01-01" -> <<"2", "0", "2", "4", "-", "0", "1", "-", "0", "1">>
          [] tok = "2024-01-02" -> <<"2", "0", "2", "4", "-", "0", "1", "-", "0", "2">>
          [] tok = "2024-13-40" -> <<"2", "0", "2", "4", "-", "1", "3", "-", "4", "0">>
          [] tok = "2024-1-1" -> <<"2", "0", "2", "4", "-", "1", "-", "1">>
          [] tok = "2024-01-011" -> <<"2", "0", "2", "4", "-", "0", "1", "-", "0", "1", "1">>
          [] tok = "today" -> <<"t", "o", "d", "a", "y">>
          [] tok = DevP -> UuidText("1")
          [] tok = DevQ -> UuidText("2")
          [] tok = DevMinted -> UuidText("d")
          [] tok = DevMinted2 -> UuidText("e")
          [] tok = DevGenerated -> UuidText("c")
          [] tok = DevBad -> <<"d", "e", "v", "i", "c", "e", "-", "1">>
          [] tok = " " -> <<" ">>
          [] tok = "a" -> <<"a">>
          [] tok = "b" -> <<"b">>
          [] tok = " b" -> <<" ", "b">>
          [] tok = "x*100" -> Rep("x", 100)
          [] tok = "x*101" -> Rep("x", 101)
          [] OTHER -> <<>>]

Text(tok) == Chars[tok]

\* Code unit of a character (only the characters of stored dates are compared).
CharCode(ch) ==
    CASE ch = "-" -> 45
      [] ch = "0" -> 48 [] ch = "1" -> 49 [] ch = "2" -> 50 [] ch = "3" -> 51
      [] ch = "4" -> 52 [] ch = "5" -> 53 [] ch = "6" -> 54 [] ch = "7" -> 55
      [] ch = "8" -> 56 [] ch = "9" -> 57
      [] OTHER -> 100

\* s < t as SQLite compares TEXT (BINARY collation: memcmp, then length).
RECURSIVE SeqLess(_, _)
SeqLess(s, t) ==
    IF t = <<>> THEN FALSE
    ELSE IF s = <<>> THEN TRUE
    ELSE IF CharCode(Head(s)) # CharCode(Head(t))
         THEN CharCode(Head(s)) < CharCode(Head(t))
         ELSE SeqLess(Tail(s), Tail(t))

\* String.prototype.trim, on characters.
RECURSIVE TrimStart(_)
TrimStart(s) == IF s # <<>> /\ Head(s) = " " THEN TrimStart(Tail(s)) ELSE s

RECURSIVE TrimEnd(_)
TrimEnd(s) ==
    IF s # <<>> /\ s[Len(s)] = " " THEN TrimEnd(SubSeq(s, 1, Len(s) - 1)) ELSE s

Trim(tok) == CHOOSE t \in Texts : Text(t) = TrimEnd(TrimStart(Text(tok)))

TextLess(a, b) == SeqLess(Text(a), Text(b))
TextLeq(a, b) == a = b \/ TextLess(a, b)

\* An anchored pattern of fixed width: one character class per position.
RegexTest(pattern, s) ==
    /\ Len(s) = Len(pattern)
    /\ \A i \in 1..Len(s) : s[i] \in pattern[i]

\* A pattern without the ^...$ anchors: some window of s matches.
RegexSearch(pattern, s) ==
    \E k \in 0..Len(s) :
        /\ k + Len(pattern) <= Len(s)
        /\ \A i \in 1..Len(pattern) : s[k + i] \in pattern[i]

dateRegex ==
    <<Digits, Digits, Digits, Digits, {"-"}, Digits, Digits, {"-"}, Digits, Digits>>

dateRegexTestUnanchored(date) == RegexSearch(dateRegex, Text(date))

dateRegexTest(date) == RegexTest(dateRegex, Text(date))

uuidRegex ==
    Rep(HexDigits, 8) \o <<{"-"}>> \o Rep(HexDigits, 4) \o <<{"-"}>>
        \o <<{"1", "2", "3", "4", "5"}>> \o Rep(HexDigits, 3) \o <<{"-"}>>
        \o <<{"8", "9", "a", "b", "A", "B"}>> \o Rep(HexDigits, 3) \o <<{"-"}>>
        \o Rep(HexDigits, 12)

uuidRegexTest(deviceId) == RegexTest(uuidRegex, Text(deviceId))

\* Year, month and day of a text of the YYYY-MM-DD shape, read from its digits.
DigitValue(ch) == CharCode(ch) - CharCode("0")

YearOf(date) ==
    LET t == Text(date)
    IN 1000 * DigitValue(t[1]) + 100 * DigitValue(t[2]) + 10 * DigitValue(t[3])
           + DigitValue(t[4])

MonthOf(date) == 10 * DigitValue(Text(date)[6]) + DigitValue(Text(date)[7])

DayOf(date) == 10 * DigitValue(Text(date)[9]) + DigitValue(Text(date)[10])

\* new Date(text) for a text of the YYYY-MM-DD shape: Invalid Date (time value NaN)
\* when the month is not 1..12 or the day not 1..31, else a time that grows with
\* (year, month, day). A comparison with NaN is false.
InvalidDate(date) == MonthOf(date) \notin 1..12 \/ DayOf(date) \notin 1..31

NewDate(date) == (YearOf(date) * 12 + MonthOf(date)) * 31 + DayOf(date)

DateGreater(a, b) == ~InvalidDate(a) /\ ~InvalidDate(b) /\ NewDate(a) > NewDate(b)

----------------------------------------------------------------------------
(* Persistence layer: table diary_entries *)

NoRow == [id |-> 0, date |-> "", content |-> "", device_id |-> ""]

Matching(T, date, deviceId) == {r \in T : r.date = date /\ r.device_id = deviceId}

\* db.get: the first matching row, or undefined
getRow(T, date, deviceId) ==
    IF Matching(T, date, deviceId) = {} THEN NoRow
    ELSE CHOOSE r \in Matching(T, date, deviceId) :
             \A q \in Matching(T, date, deviceId) : r.id <= q.id

\* The table's constraints on an INSERT: UNIQUE(date, device_id), content NOT NULL.
ConstraintViolatedNoUnique(T, date, content, deviceId) == FALSE

ConstraintViolated(T, date, content, deviceId) ==
    Matching(T, date, deviceId) # {}

\* ORDER BY date DESC
RECURSIVE OrderByDateAsc(_)
OrderByDateAsc(S) ==
    IF S = {} THEN <<>>
    ELSE LET first == CHOOSE r \in S :
                          \A q \in S : TextLess(r.date, q.date)
                                           \/ (r.date = q.date /\ r.id <= q.id)
         IN <<first>> \o OrderByDateAsc(S \ {first})

RECURSIVE OrderByDateDesc(_)
OrderByDateDesc(S) ==
    IF S = {} THEN <<>>
    ELSE LET first == CHOOSE r \in S :
                          \A q \in S : TextLess(q.date, r.date)
                                           \/ (r.date = q.date /\ r.id <= q.id)
         IN <<first>> \o OrderByDateDesc(S \ {first})

----------------------------------------------------------------------------
(* class DiaryEntry *)

getAllEntries(T, deviceId) ==
    OrderByDateDesc({r \in T : r.device_id = deviceId})

getEntryByDateAnyDevice(T, date, deviceId) ==
    IF {r \in T : r.date = date} = {} THEN NoRow
    ELSE CHOOSE r \in T : r.date = date /\ \A q \in T : q.date = date => r.id <= q.id

\* SELECT * FROM diary_entries WHERE date = ? AND device_id = ?
getEntryByDate(T, date, deviceId) == getRow(T, date, deviceId)

\* INSERT; a constraint violation is rethrown as an Error (err).
createEntry(T, id, date, content, deviceId) ==
    IF ConstraintViolated(T, date, content, deviceId)
    THEN [err |-> TRUE, rows |-> T, changes |-> 0]
    ELSE [err |-> FALSE,
          rows |-> T \cup {[id |-> id, date |-> date, content |-> content,
                            device_id |-> deviceId]},
          changes |-> 1]

updateEntryKeepsContent(T, date, content, deviceId) ==
    [err |-> FALSE, rows |-> T, changes |-> Cardinality(Matching(T, date, deviceId))]

updateEntryAnyDevice(T, date, content, deviceId) ==
    [err |-> FALSE,
     rows |-> {IF r.date = date THEN [r EXCEPT !.content = content] ELSE r : r \in T},
     changes |-> Cardinality({r \in T : r.date = date})]

\* UPDATE ... SET content = ? WHERE date = ? AND device_id = ?
updateEntry(T, date, content, deviceId) ==
    [err |-> FALSE,
     rows |-> {IF r \in Matching(T, date, deviceId)
                  THEN [r EXCEPT !.content = content] ELSE r : r \in T},
     changes |-> Cardinality(Matching(T, date, deviceId))]

deleteEntryAnyDevice(T, date, deviceId) ==
    [err |-> FALSE,
     rows |-> {r \in T : r.date # date},
     changes |-> Cardinality({r \in T : r.date = date})]

deleteEntryNoMatch(T, date, deviceId) ==
    [err |-> FALSE, rows |-> T, changes |-> 0]

\* DELETE ... WHERE date = ? AND device_id = ?
deleteEntry(T, date, deviceId) ==
    [err |-> FALSE,
     rows |-> T \ Matching(T, date, deviceId),
     changes |-> Cardinality(Matching(T, date, deviceId))]

upsertEntryAlwaysUpdates(T, id, existingEntry, date, content, deviceId) ==
    updateEntry(T, date, content, deviceId)

upsertEntryAlwaysCreates(T, id, existingEntry, date, content, deviceId) ==
    createEntry(T, id, date, content, deviceId)

\* The write half of upsertEntry; existingEntry tells whether its getEntryByDate
\* returned a row.
upsertEntry(T, id, existingEntry, date, content, deviceId) ==
    IF existingEntry
    THEN updateEntry(T, date, content, deviceId)
    ELSE createEntry(T, id, date, content, deviceId)

\* WHERE date BETWEEN ? AND ? AND device_id = ? ORDER BY date DESC
getEntriesInRange(T, startDate, endDate, deviceId) ==
    OrderByDateDesc({r \in T : /\ r.device_id = deviceId
                               /\ TextLeq(startDate, r.date)
                               /\ TextLeq(r.date, endDate)})

----------------------------------------------------------------------------
(* middleware/deviceId.js *)

\* uuidv4(): a random version-4 UUID, which is taken never to repeat an identity
\* already in use. None is drawn when the request carries an identity.
uuidv4(mints, hdr, qry) ==
    IF hdr # "" \/ qry # "" THEN {""}
    ELSE {u \in mints : /\ \A r \in rows : r.device_id # u
                        /\ \A r \in BagToSet(pending) : r.deviceId # u}

deviceIdMiddlewareNoHeader(hdr, qry, minted) ==
    LET given == IF hdr # "" THEN hdr ELSE qry
    IN [deviceId |-> IF given = "" THEN minted ELSE given, header |-> "",
        given |-> given]

\* req.deviceId, the X-Device-ID response header ("" when not set), and the
\* identity the request carried (given, "" when none).
deviceIdMiddleware(hdr, qry, minted) ==
    LET given == IF hdr # "" THEN hdr ELSE qry
    IN IF given = ""
       THEN [deviceId |-> minted, header |-> minted, given |-> given]
       ELSE [deviceId |-> given, header |-> "", given |-> given]

validateDeviceIdAcceptsAll(deviceId) == TRUE

validateDeviceId(deviceId) == uuidRegexTest(deviceId)

----------------------------------------------------------------------------
(* routes/entries.js: responses and request bookkeeping *)

NoResp ==
    [op |-> "none", date |-> "", end |-> "", content |-> "", deviceId |-> "",
     status |-> 0, data |-> NoRow, list |-> <<>>, acc |-> 0, seen |-> FALSE,
     before |-> "", header |-> "", given |-> ""]

\* The answer to request q (date, end, content) of kind op. Besides what the client
\* receives (status, data, list, header) it records: acc, the number of statements the
\* request ran against the table; seen, whether its getEntryByDate returned a row;
\* before, the content stored under its key just before its last statement ran.
Response(op, q, mw, status, data, list, acc, seen, before) ==
    [op |-> op, date |-> q.date, end |-> q.end, content |-> q.content,
     deviceId |-> mw.deviceId, status |-> status, data |-> data, list |-> list,
     acc |-> acc, seen |-> seen, before |-> before, header |-> mw.header,
     given |-> mw.given]

\* Inserts already promised by requests in flight.
InsertsInFlight ==
    LET S == {r \in BagToSet(pending) : r.op = "post" \/ (r.op = "patch" /\ ~r.existing)}
    IN BagCardinality([r \in S |-> pending[r]])

CanHold == BagCardinality(pending) < MaxInFlight

\* A client operation without a request in flight.
Idle == [st |-> "idle", date |-> "", content |-> "", status |-> 0, queue |-> <<>>]

NoDone == [kind |-> "none", date |-> "", content |-> "", case |-> "", shows |-> ""]

\* The requester from: "ext" (any other caller) or the kind of the client operation
\* whose fetch this request is. Its request has reached the handler and waits.
Taken(from) ==
    /\ tasks' = IF from = "ext" THEN tasks ELSE [tasks EXCEPT ![from].st = "held"]
    /\ done' = NoDone
    /\ UNCHANGED <<modal, server, variant, isOnline, cache, currentDate, textarea, replay,
                   storedDeviceId, timers>>

\* The answer rsp travels back to the requester.
Reply(from, rsp) ==
    /\ tasks' = IF from = "ext" THEN tasks
                 ELSE [tasks EXCEPT ![from].st = "answered", ![from].status = rsp.status,
                                    ![from].content = IF rsp.op = "get"
                                                      THEN rsp.data.content ELSE @,
                                    ![from].queue = IF rsp.op = "list"
                                                    THEN rsp.list ELSE @]
    /\ done' = NoDone
    /\ UNCHANGED <<modal, server, variant, isOnline, cache, currentDate, textarea, replay,
                   storedDeviceId, timers>>

\* The request is held until its write runs.
Hold(op, q, mw, existingEntry, from) ==
    /\ pending' = pending (+) SetToBag({[op |-> op, date |-> q.date, end |-> q.end,
                                         content |-> q.content, deviceId |-> mw.deviceId,
                                         existing |-> existingEntry # NoRow,
                                         header |-> mw.header, given |-> mw.given,
                                         from |-> from]})
    /\ Taken(from)

\* Request r is answered.
Release(r) ==
    /\ pending' = pending (-) SetToBag({r})
    /\ Reply(r.from, resp')

Rejected(op, q, mw, from) ==
    /\ resp' = Response(op, q, mw, 400, NoRow, <<>>, 0, FALSE, "")
    /\ Reply(from, resp')
    /\ UNCHANGED <<rows, nextId, pending, written, deleted>>

\* productionModeMiddleware (only the router of part_006 installs it): TRUE when it
\* answers 503 instead of calling the handler.
productionModeMiddlewareOff(S) == FALSE

productionModeMiddleware(S) == S.routes = "part_006" /\ S.NODE_ENV = "production"

Unavailable(op, q, mw, from) ==
    /\ resp' = Response(op, q, mw, 503, NoRow, <<>>, 0, FALSE, "")
    /\ Reply(from, resp')
    /\ UNCHANGED <<rows, nextId, pending, written, deleted>>

\* !date, !content: a field of the request that is absent or the empty string
missingNever(field) == FALSE

missing(field) == field = ""

\* POST: "Entry already exists" when the existence check returned a row
createConflictNever(existingEntry) == FALSE

createConflict(existingEntry) == existingEntry # NoRow

\* PUT, DELETE: "Entry not found" when the existence check returned no row
entryNotFoundNever(existingEntry) == FALSE

entryNotFoundInverted(existingEntry) == existingEntry # NoRow

entryNotFound(existingEntry) == existingEntry = NoRow

\* The body of a write's answer: what createEntry / updateEntry / deleteEntry return
Echo(id, date, content, deviceId) ==
    [id |-> id, date |-> date, content |-> content, device_id |-> deviceId]

----------------------------------------------------------------------------
(* routes/entries.js: one action per step of a handler between two awaits *)

\* GET /api/entries
List(I) ==
    \E hdr \in I.hdrs, qry \in I.qrys :
      \E minted \in uuidv4(I.mints, hdr, qry) :
        LET mw == deviceIdMiddleware(hdr, qry, minted)
            q == [date |-> "", end |-> "", content |-> ""]
        IN IF ~validateDeviceId(mw.deviceId) THEN Rejected("list", q, mw, I.from)
           ELSE IF productionModeMiddleware(server) THEN Unavailable("list", q, mw, I.from)
           ELSE /\ resp' = Response("list", q, mw, 200, NoRow,
                                    getAllEntries(rows, mw.deviceId), 1, FALSE, "")
                /\ Reply(I.from, resp')
                /\ UNCHANGED <<rows, nextId, pending, written, deleted>>

\* GET /api/entries/:date: the answer of the handler on table T
GetEntryRoute(T, date, mw) ==
    LET entry == getEntryByDate(T, date, mw.deviceId)
        q == [date |-> date, end |-> "", content |-> ""]
    IN IF ~validateDeviceId(mw.deviceId)
       THEN Response("get", q, mw, 400, NoRow, <<>>, 0, FALSE, "")
       ELSE IF productionModeMiddleware(server)
       THEN Response("get", q, mw, 503, NoRow, <<>>, 0, FALSE, "")
       ELSE IF ~dateRegexTest(date)
       THEN Response("get", q, mw, 400, NoRow, <<>>, 0, FALSE, "")
       ELSE Response("get", q, mw, IF entry = NoRow THEN 404 ELSE 200,
                     entry, <<>>, 1, entry # NoRow, entry.content)

Get(I) ==
    \E date \in I.dates \ {""}, hdr \in I.hdrs, qry \in I.qrys :
      \E minted \in uuidv4(I.mints, hdr, qry) :
        /\ resp' = GetEntryRoute(rows, date, deviceIdMiddleware(hdr, qry, minted))
        /\ Reply(I.from, resp')
        /\ UNCHANGED <<rows, nextId, pending, written, deleted>>

\* The range route's test of its bounds: part_006 answers 400 when
\* new Date(startDate) > new Date(endDate); routes/entries.js has no such test.
rangeInverted(S, startDate, endDate) ==
    S.routes = "part_006" /\ DateGreater(startDate, endDate)

\* The method of DiaryEntry the range route calls: routes/entries.js calls
\* getEntriesInRange; part_006 calls getEntriesByDateRange, which class DiaryEntry
\* does not define (a TypeError, answered 500 by the handler's catch).
rangeMethodDefined(S) == S.routes = "entries.js"

\* GET /api/entries/range/:startDate/:endDate
Range(I) ==
    \E startDate \in I.dates \ {""}, endDate \in I.ends \ {""},
       hdr \in I.hdrs, qry \in I.qrys :
      \E minted \in uuidv4(I.mints, hdr, qry) :
        LET mw == deviceIdMiddleware(hdr, qry, minted)
            q == [date |-> startDate, end |-> endDate, content |-> ""]
        IN IF ~validateDeviceId(mw.deviceId) THEN Rejected("range", q, mw, I.from)
           ELSE IF productionModeMiddleware(server)
           THEN Unavailable("range", q, mw, I.from)
           ELSE IF ~dateRegexTest(startDate) \/ ~dateRegexTest(endDate)
           THEN Rejected("range", q, mw, I.from)
           ELSE IF rangeInverted(server, startDate, endDate)
           THEN Rejected("range", q, mw, I.from)
           ELSE IF ~rangeMethodDefined(server)
           THEN /\ resp' = Response("range", q, mw, 500, NoRow, <<>>, 0, FALSE, "")
                /\ Reply(I.from, resp')
                /\ UNCHANGED <<rows, nextId, pending, written, deleted>>
           ELSE /\ resp' = Response("range", q, mw, 200, NoRow,
                                    getEntriesInRange(rows, startDate, endDate, mw.deviceId),
                                    1, FALSE, "")
                /\ Reply(I.from, resp')
                /\ UNCHANGED <<rows, nextId, pending, written, deleted>>

\* POST /api/entries, up to the createEntry call
PostCheck(I) ==
    \E date \in I.dates, content \in I.contents,
       hdr \in I.hdrs, qry \in I.qrys :
      \E minted \in uuidv4(I.mints, hdr, qry) :
        LET mw == deviceIdMiddleware(hdr, qry, minted)
            q == [date |-> date, end |-> "", content |-> content]
            existingEntry == getEntryByDate(rows, date, mw.deviceId)
        IN IF ~validateDeviceId(mw.deviceId) THEN Rejected("post", q, mw, I.from)
           ELSE IF productionModeMiddleware(server)
           THEN Unavailable("post", q, mw, I.from)
           ELSE IF missing(date) \/ missing(content) \/ ~dateRegexTest(date)
           THEN Rejected("post", q, mw, I.from)
           ELSE IF createConflict(existingEntry)
           THEN /\ resp' = Response("post", q, mw, 409, NoRow, <<>>, 1,
                                    existingEntry # NoRow, existingEntry.content)
                /\ Reply(I.from, resp')
                /\ UNCHANGED <<rows, nextId, pending, written, deleted>>
           ELSE /\ CanHold
                /\ nextId + InsertsInFlight <= MaxId
                /\ Hold("post", q, mw, existingEntry, I.from)
                /\ resp' = NoResp
                /\ UNCHANGED <<rows, nextId, written, deleted>>

\* POST /api/entries, createEntry and the answer
PostWrite ==
    \E r \in BagToSet(pending) :
        /\ r.op = "post"
        /\ LET w == createEntry(rows, nextId, r.date, r.content, r.deviceId)
           IN /\ rows' = w.rows
              /\ nextId' = IF w.err THEN nextId ELSE nextId + 1
              /\ resp' = Response("post", r, r, IF w.err THEN 500 ELSE 201,
                                  IF w.err THEN NoRow
                                  ELSE Echo(nextId, r.date, r.content, r.deviceId),
                                  <<>>, 2, r.existing,
                                  getRow(rows, r.date, r.deviceId).content)
              /\ Release(r)
              /\ written' = IF w.err THEN written ELSE written \cup {r.deviceId}
              /\ deleted' = deleted

\* PUT /api/entries/:date, up to the updateEntry call
PutCheck(I) ==
    \E date \in I.dates \ {""}, content \in I.contents,
       hdr \in I.hdrs, qry \in I.qrys :
      \E minted \in uuidv4(I.mints, hdr, qry) :
        LET mw == deviceIdMiddleware(hdr, qry, minted)
            q == [date |-> date, end |-> "", content |-> content]
            existingEntry == getEntryByDate(rows, date, mw.deviceId)
        IN IF ~validateDeviceId(mw.deviceId) THEN Rejected("put", q, mw, I.from)
           ELSE IF productionModeMiddleware(server)
           THEN Unavailable("put", q, mw, I.from)
           ELSE IF missing(content) \/ ~dateRegexTest(date)
           THEN Rejected("put", q, mw, I.from)
           ELSE IF entryNotFound(existingEntry)
           THEN /\ resp' = Response("put", q, mw, 404, NoRow, <<>>, 1,
                                    existingEntry # NoRow, existingEntry.content)
                /\ Reply(I.from, resp')
                /\ UNCHANGED <<rows, nextId, pending, written, deleted>>
           ELSE /\ CanHold
                /\ Hold("put", q, mw, existingEntry, I.from)
                /\ resp' = NoResp
                /\ UNCHANGED <<rows, nextId, written, deleted>>

\* PUT /api/entries/:date, updateEntry and the answer
PutWrite ==
    \E r \in BagToSet(pending) :
        /\ r.op = "put"
        /\ LET w == updateEntry(rows, r.date, r.content, r.deviceId)
           IN /\ rows' = w.rows
              /\ resp' = Response("put", r, r, 200,
                                  Echo(0, r.date, r.content, r.deviceId), <<>>, 2,
                                  r.existing, getRow(rows, r.date, r.deviceId).content)
              /\ Release(r)
              /\ UNCHANGED <<nextId, written, deleted>>

\* PATCH /api/entries/:date, up to the write of upsertEntry
PatchCheck(I) ==
    \E date \in I.dates \ {""}, content \in I.contents,
       hdr \in I.hdrs, qry \in I.qrys :
      \E minted \in uuidv4(I.mints, hdr, qry) :
        LET mw == deviceIdMiddleware(hdr, qry, minted)
            q == [date |-> date, end |-> "", content |-> content]
            existingEntry == getEntryByDate(rows, date, mw.deviceId)
        IN IF ~validateDeviceId(mw.deviceId) THEN Rejected("patch", q, mw, I.from)
           ELSE IF productionModeMiddleware(server)
           THEN Unavailable("patch", q, mw, I.from)
           ELSE IF missing(content) \/ ~dateRegexTest(date)
           THEN Rejected("patch", q, mw, I.from)
           ELSE /\ CanHold
                /\ existingEntry = NoRow => nextId + InsertsInFlight <= MaxId
                /\ Hold("patch", q, mw, existingEntry, I.from)
                /\ resp' = NoResp
                /\ UNCHANGED <<rows, nextId, written, deleted>>

\* PATCH /api/entries/:date, the write of upsertEntry and the answer
PatchWrite ==
    \E r \in BagToSet(pending) :
        /\ r.op = "patch"
        /\ LET w == upsertEntry(rows, nextId, r.existing, r.date, r.content, r.deviceId)
               inserted == w.rows # rows /\ Cardinality(w.rows) > Cardinality(rows)
           IN /\ rows' = w.rows
              /\ nextId' = IF inserted THEN nextId + 1 ELSE nextId
              /\ resp' = Response("patch", r, r, IF w.err THEN 500 ELSE 200,
                                  IF w.err THEN NoRow
                                  ELSE Echo(IF inserted THEN nextId ELSE 0,
                                            r.date, r.content, r.deviceId),
                                  <<>>, 2, r.existing,
                                  getRow(rows, r.date, r.deviceId).content)
              /\ Release(r)
              /\ written' = IF inserted THEN written \cup {r.deviceId} ELSE written
              /\ deleted' = deleted

\* DELETE /api/entries/:date, up to the deleteEntry call
DeleteCheck(I) ==
    \E date \in I.dates \ {""}, hdr \in I.hdrs, qry \in I.qrys :
      \E minted \in uuidv4(I.mints, hdr, qry) :
        LET mw == deviceIdMiddleware(hdr, qry, minted)
            q == [date |-> date, end |-> "", content |-> ""]
            existingEntry == getEntryByDate(rows, date, mw.deviceId)
        IN IF ~validateDeviceId(mw.deviceId) THEN Rejected("delete", q, mw, I.from)
           ELSE IF productionModeMiddleware(server)
           THEN Unavailable("delete", q, mw, I.from)
           ELSE IF ~dateRegexTest(date)
           THEN Rejected("delete", q, mw, I.from)
           ELSE IF entryNotFound(existingEntry)
           THEN /\ resp' = Response("delete", q, mw, 404, NoRow, <<>>, 1,
                                    existingEntry # NoRow, existingEntry.content)
                /\ Reply(I.from, resp')
                /\ UNCHANGED <<rows, nextId, pending, written, deleted>>
           ELSE /\ CanHold
                /\ Hold("delete", q, mw, existingEntry, I.from)
                /\ resp' = NoResp
                /\ UNCHANGED <<rows, nextId, written, deleted>>

\* DELETE /api/entries/:date, deleteEntry and the answer
DeleteWrite ==
    \E r \in BagToSet(pending) :
        /\ r.op = "delete"
        /\ LET w == deleteEntry(rows, r.date, r.deviceId)
           IN /\ rows' = w.rows
              /\ resp' = Response("delete", r, r, 200,
                                  Echo(0, r.date, "", r.deviceId), <<>>, 2,
                                  r.existing, getRow(rows, r.date, r.deviceId).content)
              /\ Release(r)
              /\ deleted' = IF w.changes > 0
                            THEN deleted \cup {[date |-> r.date, device_id |-> r.deviceId]}
                            ELSE deleted
              /\ UNCHANGED <<nextId, written>>

----------------------------------------------------------------------------
(* The store under arbitrary callers *)

StoreInputs ==
    [dates |-> {"2024-01-01", "2024-01-02"},
     ends |-> {"2024-01-02"},
     contents |-> {"a", "b"},
     hdrs |-> {DevP},
     qrys |-> {""},
     mints |-> {DevMinted},
     from |-> "ext"]

\* The table as createEntriesTable leaves it, and no request yet.
InitTable ==
    /\ rows = {}
    /\ nextId = 1
    /\ pending = EmptyBag
    /\ resp = NoResp
    /\ written = {}
    /\ deleted = {}

\* routes/entries.js mounted, NODE_ENV unset or development.
Development == [routes |-> "entries.js", NODE_ENV |-> "development"]

InitStore == InitTable /\ server = Development

NoModal == [open |-> FALSE, entries |-> <<>>]

\* No auto-save timer is armed and no edit was made; no history modal is shown.
NoTimer ==
    /\ modal = NoModal
    /\ saveTimeout = [armed |-> FALSE, left |-> 0, captured |-> ""]
    /\ lastContent = ""
    /\ burst = [since |-> 0, fired |-> 0, edited |-> FALSE, date |-> "", content |-> ""]

\* No browser client is open: every request comes from some other caller.
NoClient ==
    /\ variant = "none"
    /\ isOnline = TRUE
    /\ cache = {}
    /\ currentDate = ""
    /\ textarea = ""
    /\ tasks = [k \in {"save", "sync"} |-> Idle]
    /\ done = NoDone
    /\ replay = [phase |-> "none", ok |-> TRUE]
    /\ storedDeviceId = ""
    /\ NoTimer

Init == InitStore /\ NoClient

Requests(I) ==
    \/ List(I)
    \/ Get(I)
    \/ Range(I)
    \/ PostCheck(I)
    \/ PutCheck(I)
    \/ PatchCheck(I)
    \/ DeleteCheck(I)

Writes ==
    \/ PostWrite
    \/ PutWrite
    \/ PatchWrite
    \/ DeleteWrite

Next == Requests(StoreInputs) \/ Writes

Spec == Init /\ [][Next]_vars

----------------------------------------------------------------------------
(* Two partitions on one date *)

PartitionInputs ==
    [dates |-> {"2024-01-01"},
     ends |-> {"2024-01-01"},
     contents |-> {"a", "b"},
     hdrs |-> {DevP, DevQ},
     qrys |-> {""},
     mints |-> {DevMinted},
     from |-> "ext"]

NextPartitions == Requests(PartitionInputs) \/ Writes

SpecPartitions == Init /\ [][NextPartitions]_vars

----------------------------------------------------------------------------
(* Malformed requests *)

ValidationInputs ==
    [dates |-> {"", "2024-01-01", "2024-1-1", "2024-01-011", "today"},
     ends |-> {"2024-01-01", "2024-1-1"},
     contents |-> {"", "a"},
     hdrs |-> {DevP},
     qrys |-> {""},
     mints |-> {DevMinted},
     from |-> "ext"]

NextValidation == Requests(ValidationInputs) \/ Writes

SpecValidation == Init /\ [][NextValidation]_vars

----------------------------------------------------------------------------
(* A date of the right shape that no calendar has *)

CalendarInputs ==
    [dates |-> {"2024-01-01", "2024-13-40"},
     ends |-> {"2024-13-40"},
     contents |-> {"a"},
     hdrs |-> {DevP},
     qrys |-> {""},
     mints |-> {DevMinted},
     from |-> "ext"]

NextCalendar == Requests(CalendarInputs) \/ Writes

SpecCalendar == Init /\ [][NextCalendar]_vars

----------------------------------------------------------------------------
(* Either router file mounted, under either NODE_ENV *)

RouterInputs ==
    [dates |-> {"2024-01-01", "2024-01-02"},
     ends |-> {"2024-01-01", "2024-01-02"},
     contents |-> {"a"},
     hdrs |-> {DevP, DevBad},
     qrys |-> {""},
     mints |-> {DevMinted},
     from |-> "ext"]

InitRouters ==
    /\ InitTable
    /\ server \in [routes : {"entries.js", "part_006"},
                   NODE_ENV : {"development", "production"}]
    /\ NoClient

NextRouters == Requests(RouterInputs) \/ Writes

SpecRouters == InitRouters /\ [][NextRouters]_vars

----------------------------------------------------------------------------
(* Requests with and without a device identity; a client that was handed a
   minted identity sends it back in the header. *)

MintInputs ==
    [dates |-> {"2024-01-01"},
     ends |-> {"2024-01-01"},
     contents |-> {"a"},
     hdrs |-> {"", DevMinted},
     qrys |-> {"", DevQ},
     mints |-> {DevMinted, DevMinted2},
     from |-> "ext"]

NextMint == Requests(MintInputs) \/ Writes

SpecMint == Init /\ [][NextMint]_vars

----------------------------------------------------------------------------
(* The browser client: script.js (two scripts), unnamed/part_000, part_001 *)

Variants == {"script-1", "script-2", "part_000", "part_001"}

\* The device id the client holds and sends as X-Device-ID: the module's deviceId,
\* which start-up leaves equal to the persisted value.
clientDeviceId == storedDeviceId

\* generateUUID(): 'xxxxxxxx-xxxx-4xxx-yxxx-xxxxxxxxxxxx' with random hex digits, y
\* one of 8, 9, a, b; the values it may return.
generateUUID == {DevGenerated}

\* The scripts' top-level identity code: the value persisted under deviceId once
\* the script has been evaluated. stored is the value found ("" when absent).
startup1(stored, generated) == stored

startup2(stored, generated) == IF stored = "" THEN generated ELSE stored

startupP(stored, generated) ==
    LET found == IF stored # "" THEN stored ELSE generated
    IN IF ~uuidRegexTest(found) THEN generated ELSE found

startup(v, stored, generated) ==
    CASE v = "script-1" -> startup1(stored, generated)
      [] v = "script-2" -> startup2(stored, generated)
      [] OTHER -> startupP(stored, generated)

\* api.request of the first script of script.js reads the identity on every call,
\* generating and persisting one when none is stored; the other clients send the
\* module's deviceId.
apiRequestDeviceId(v, stored, generated) ==
    IF v = "script-1" /\ stored = "" THEN generated ELSE stored

setItemAfterClear(C, date, content) == {[date |-> date, content |-> content]}

\* localStorage, keys diary_<date>.
setItem(C, date, content) ==
    {e \in C : e.date # date} \cup {[date |-> date, content |-> content]}

\* getLocalEntries: every diary_ item, sorted by new Date(b.date) - new Date(a.date)
\* (the keys are dates of formatDateKey, which text order and time order sort alike).
RECURSIVE getLocalEntries(_)
getLocalEntries(C) ==
    IF C = {} THEN <<>>
    ELSE LET first == CHOOSE e \in C : \A q \in C : q = e \/ TextLess(q.date, e.date)
         IN <<first>> \o getLocalEntries(C \ {first})

\* Members of the api object the replay calls.
apiHasUpsertEntry(v) == v = "part_001"

\* api.request: does the awaited call throw? st is how the fetch ended.
requestThrows(v, st, status) ==
    \/ st = "failed"
    \/ /\ ~(status \in 200..299)
       /\ ~(status = 404 /\ v \in {"script-1", "part_001"})

\* What a save tells the user: "saved" (a plain success: 'Entry saved successfully!',
\* 'Saved!', 'Entry saved to cloud!'), "saved-locally" ('Failed to save to server.
\* Saved locally.', 'Saved Locally', 'Entry saved locally!'), "error" ('Error saving
\* entry. Check your connection.'), "refused" ('Please write something before saving!').

\* saveDiaryEntry up to its await: is a PATCH sent, is localStorage written at once,
\* and what the user is shown when the function ends without a request.
saveDiaryEntry1(content, online) == [fetch |-> TRUE, store |-> FALSE, shows |-> ""]

saveDiaryEntry2(content, online) ==
    [fetch |-> online, store |-> ~online, shows |-> "saved"]

saveDiaryEntryP(content, online) ==
    IF content = "" THEN [fetch |-> FALSE, store |-> FALSE, shows |-> "refused"]
    ELSE [fetch |-> online, store |-> ~online, shows |-> "saved-locally"]

saveDiaryEntry(v, content, online) ==
    CASE v = "script-1" -> saveDiaryEntry1(content, online)
      [] v = "script-2" -> saveDiaryEntry2(content, online)
      [] OTHER -> saveDiaryEntryP(content, online)

\* saveDiaryEntry after its await: is localStorage written, with the values captured
\* before the await or with the editor's values read again, and what the user is
\* shown. online is the flag when the function resumes.
saveDiaryEntryAfter1(threw, online) ==
    [store |-> TRUE, reread |-> threw,
     shows |-> IF threw THEN "saved-locally" ELSE "saved"]

saveDiaryEntryAfter2(threw, online) ==
    [store |-> TRUE, reread |-> FALSE,
     shows |-> IF threw THEN "saved-locally" ELSE "saved"]

saveDiaryEntryAfterP(threw, online) ==
    [store |-> ~threw, reread |-> FALSE,
     shows |-> IF threw THEN "error" ELSE IF online THEN "saved" ELSE "saved-locally"]

saveDiaryEntryAfter(v, threw, online) ==
    CASE v = "script-1" -> saveDiaryEntryAfter1(threw, online)
      [] v = "script-2" -> saveDiaryEntryAfter2(threw, online)
      [] OTHER -> saveDiaryEntryAfterP(threw, online)

\* syncWithServer: the entries it sends, in order.
syncWithServerScript(C) == <<>>

syncWithServerPart(v, C) == IF apiHasUpsertEntry(v) THEN getLocalEntries(C) ELSE <<>>

syncWithServer(v, C) ==
    IF v \in {"script-1", "script-2"} THEN syncWithServerScript(C)
    ELSE syncWithServerPart(v, C)

Sent(date, content, queue) ==
    [st |-> "sent", date |-> date, content |-> content, status |-> 0, queue |-> queue]

Finished(kind, date, content, case, shows) ==
    [kind |-> kind, date |-> date, content |-> content, case |-> case, shows |-> shows]

\* The user changes the editor's text (diaryTextarea.textContent).
UserTypes(I) ==
    \E c \in I.typed :
        /\ textarea' = c
        /\ resp' = NoResp
        /\ done' = NoDone
        /\ UNCHANGED <<modal, storedDeviceId, timers, server, rows, nextId, pending, written,
                   deleted, variant, isOnline, cache,
                       currentDate, tasks, replay>>

\* The user clicks save: saveDiaryEntry up to its await.
SaveClick ==
    /\ tasks["save"].st = "idle"
    /\ LET content == Trim(textarea)
           s == saveDiaryEntry(variant, content, isOnline)
       IN /\ tasks' = IF s.fetch
                      THEN [tasks EXCEPT !["save"] = Sent(currentDate, content, <<>>)]
                      ELSE tasks
          /\ cache' = IF s.store THEN setItem(cache, currentDate, content) ELSE cache
          /\ done' = IF s.fetch THEN NoDone
                     ELSE Finished("save", currentDate, content,
                                   IF s.store THEN "offline" ELSE "refused", s.shows)
          /\ \E generated \in generateUUID :
                 storedDeviceId' = IF s.fetch
                                   THEN apiRequestDeviceId(variant, storedDeviceId, generated)
                                   ELSE storedDeviceId
    /\ deleted' = {k \in deleted : k.date # currentDate}
    /\ resp' = NoResp
    /\ UNCHANGED <<modal, timers, server, rows, nextId, pending, written,
                   variant, isOnline, currentDate,
                   textarea, replay>>

\* saveDiaryEntry resumes after its await.
SaveDone ==
    /\ tasks["save"].st \in {"answered", "failed"}
    /\ LET t == tasks["save"]
           threw == requestThrows(variant, t.st, t.status)
           f == saveDiaryEntryAfter(variant, threw, isOnline)
           key == IF f.reread THEN currentDate ELSE t.date
           val == IF f.reread THEN Trim(textarea) ELSE t.content
       IN /\ cache' = IF f.store THEN setItem(cache, key, val) ELSE cache
          /\ done' = Finished("save", t.date, t.content,
                              IF threw THEN "failed" ELSE "stored", f.shows)
          /\ replay' = [replay EXCEPT !.ok = @ /\ ~threw]
    /\ tasks' = [tasks EXCEPT !["save"] = Idle]
    /\ resp' = NoResp
    /\ UNCHANGED <<modal, storedDeviceId, timers, server, rows, nextId, pending, written,
                   deleted, variant, isOnline, currentDate,
                   textarea>>

\* window 'online': the flag is set and syncWithServer runs up to its first await.
OnlineEvent ==
    /\ ~isOnline
    /\ tasks["sync"].st = "idle"
    /\ isOnline' = TRUE
    /\ LET q == syncWithServer(variant, cache)
       IN /\ tasks' = IF q = <<>> THEN tasks
                      ELSE [tasks EXCEPT
                              !["sync"] = Sent(q[1].date, q[1].content, Tail(q))]
          /\ replay' = [phase |-> IF q = <<>> THEN "finished" ELSE "running",
                        ok |-> TRUE]
          /\ done' = IF q = <<>> THEN Finished("sync", "", "", "", "synced") ELSE NoDone
    /\ resp' = NoResp
    /\ UNCHANGED <<modal, storedDeviceId, timers, server, rows, nextId, pending, written,
                   deleted, variant, cache, currentDate,
                   textarea>>

SyncStepStopsOnFailure ==
    /\ tasks["sync"].st \in {"answered", "failed"}
    /\ LET t == tasks["sync"]
           threw == requestThrows(variant, t.st, t.status)
           last == t.queue = <<>> \/ threw
       IN /\ tasks' = IF last THEN [tasks EXCEPT !["sync"] = Idle]
                      ELSE [tasks EXCEPT !["sync"] = Sent(t.queue[1].date,
                                                         t.queue[1].content,
                                                         Tail(t.queue))]
          /\ replay' = [phase |-> IF last /\ replay.phase = "running"
                                  THEN "finished" ELSE replay.phase,
                        ok |-> replay.ok /\ ~threw]
          /\ done' = IF last THEN Finished("sync", "", "", "", "synced") ELSE NoDone
    /\ resp' = NoResp
    /\ UNCHANGED <<modal, storedDeviceId, timers, server, rows, nextId, pending, written,
                   deleted, variant, isOnline, cache, currentDate, textarea>>

\* syncWithServer resumes after an await: the loop's next entry, or its end.
SyncStep ==
    /\ tasks["sync"].st \in {"answered", "failed"}
    /\ LET t == tasks["sync"]
           threw == requestThrows(variant, t.st, t.status)
       IN /\ tasks' = IF t.queue = <<>> THEN [tasks EXCEPT !["sync"] = Idle]
                      ELSE [tasks EXCEPT !["sync"] = Sent(t.queue[1].date,
                                                         t.queue[1].content,
                                                         Tail(t.queue))]
          /\ replay' = [phase |-> IF t.queue = <<>> /\ replay.phase = "running"
                                  THEN "finished" ELSE replay.phase,
                        ok |-> replay.ok /\ ~threw]
          /\ done' = IF t.queue = <<>> THEN Finished("sync", "", "", "", "synced") ELSE NoDone
    /\ resp' = NoResp
    /\ UNCHANGED <<modal, storedDeviceId, timers, server, rows, nextId, pending, written,
                   deleted, variant, isOnline, cache,
                   currentDate, textarea>>

OfflineEventClearsCache ==
    /\ isOnline
    /\ isOnline' = FALSE
    /\ cache' = {}
    /\ replay' = [phase |-> "none", ok |-> TRUE]
    /\ resp' = NoResp
    /\ done' = NoDone
    /\ UNCHANGED <<modal, storedDeviceId, timers, server, rows, nextId, pending, written,
                   deleted, variant, currentDate, textarea, tasks>>

\* window 'offline'.
OfflineEvent ==
    /\ isOnline
    /\ isOnline' = FALSE
    /\ replay' = [phase |-> "none", ok |-> TRUE]
    /\ resp' = NoResp
    /\ done' = NoDone
    /\ UNCHANGED <<modal, storedDeviceId, timers, server, rows, nextId, pending, written,
                   deleted, variant, cache, currentDate,
                   textarea, tasks>>

\* The request of client operation k, as the routes receive it.
ClientRequest(k) ==
    [dates |-> {tasks[k].date},
     ends |-> {""},
     contents |-> {tasks[k].content},
     hdrs |-> {clientDeviceId},
     qrys |-> {""},
     mints |-> {DevMinted},
     from |-> k]

\* A fetch of the client reaches the server: GET /entries/:date for api.getEntry,
\* GET /entries for api.getEntries, api.getHistory and api.getAllEntries,
\* PATCH /entries/:date for api.saveEntry and api.upsertEntry.
Fetch ==
    \E k \in DOMAIN tasks :
        /\ tasks[k].st = "sent"
        /\ isOnline
        /\ CASE k \in {"load", "load2"} -> Get(ClientRequest(k))
             [] k = "history" -> List(ClientRequest(k))
             [] OTHER -> PatchCheck(ClientRequest(k))

\* A fetch of the client rejects: the request never reaches the server.
FetchFails ==
    \E k \in DOMAIN tasks :
        /\ tasks[k].st = "sent"
        /\ tasks' = [tasks EXCEPT ![k].st = "failed"]
        /\ resp' = NoResp
        /\ done' = NoDone
        /\ UNCHANGED <<modal, storedDeviceId, timers, server, rows, nextId, pending, written,
                   deleted, variant, isOnline, cache,
                       currentDate, textarea, replay>>

\* localStorage.getItem(`diary_${dateKey}`), "" for null.
getItem(C, date) ==
    IF \E e \in C : e.date = date THEN (CHOOSE e \in C : e.date = date).content ELSE ""

\* loadDiaryEntry up to its await: is api.getEntry called (else the local record is
\* shown at once).
loadDiaryEntry(v, online) == v = "script-1" \/ online

\* How the awaited api.getEntry ended: "ok", "notfound" (404) or "failed".
readOutcome(st, status) ==
    IF st = "failed" THEN "failed"
    ELSE IF status \in 200..299 THEN "ok"
    ELSE IF status = 404 THEN "notfound"
    ELSE "failed"

\* loadDiaryEntry after its await: the text the editor shows. content is the answer's
\* data.content, local the record of the date read before the await, shown the text
\* in the editor.
loadDiaryEntryAfter1(outcome, content, local, shown) ==
    IF outcome = "ok" THEN content ELSE local

loadDiaryEntryAfter2(outcome, content, local, shown) ==
    CASE outcome = "ok" -> content
      [] outcome = "notfound" -> ""
      [] OTHER -> local

loadDiaryEntryAfterP1(outcome, content, local, shown) ==
    CASE outcome = "ok" -> content
      [] outcome = "notfound" -> local
      [] OTHER -> IF local # "" THEN local ELSE shown

loadDiaryEntryAfter(v, outcome, content, local, shown) ==
    CASE v = "script-1" -> loadDiaryEntryAfter1(outcome, content, local, shown)
      [] v = "part_001" -> loadDiaryEntryAfterP1(outcome, content, local, shown)
      [] OTHER -> loadDiaryEntryAfter2(outcome, content, local, shown)

\* The calls of loadDiaryEntry that may be waiting for their answer at a time.
Loads == {"load", "load2"}

\* navigateDay: the date moves by a day and loadDiaryEntry runs up to its await.
NavigateDay ==
    /\ \E k \in Loads \cap DOMAIN tasks, d \in {"2024-01-01", "2024-01-02"} \ {currentDate} :
        /\ tasks[k].st = "idle"
        /\ k = "load" \/ tasks["load"].st # "idle"
        /\ currentDate' = d
        /\ IF loadDiaryEntry(variant, isOnline)
           THEN /\ tasks' = [tasks EXCEPT ![k] = Sent(d, "", <<>>)]
                /\ textarea' = textarea
                /\ done' = NoDone
                /\ \E generated \in generateUUID :
                       storedDeviceId' = apiRequestDeviceId(variant, storedDeviceId, generated)
           ELSE /\ textarea' = getItem(cache, d)
                /\ done' = Finished("load", d, getItem(cache, d), "offline", "")
                /\ UNCHANGED <<tasks, storedDeviceId>>
    /\ resp' = NoResp
    /\ UNCHANGED <<modal, timers, server, rows, nextId, pending, written, deleted,
                   variant, isOnline, cache, replay>>

\* loadDiaryEntry resumes after its await.
LoadDone ==
    /\ \E k \in Loads \cap DOMAIN tasks :
        /\ tasks[k].st \in {"answered", "failed"}
        /\ LET t == tasks[k]
               outcome == readOutcome(t.st, t.status)
           IN /\ textarea' = loadDiaryEntryAfter(variant, outcome, t.content,
                                                 getItem(cache, t.date), textarea)
              /\ done' = Finished("load", t.date, textarea', outcome, "")
        /\ tasks' = [tasks EXCEPT ![k] = Idle]
    /\ resp' = NoResp
    /\ UNCHANGED <<modal, storedDeviceId, timers, server, rows, nextId, pending, written,
                   deleted, variant, isOnline, cache, currentDate, replay>>

\* The quiet interval of the input listener's timer, in seconds.
autoSaveWait(v) == IF v \in {"script-1", "part_000"} THEN 3 ELSE 2

Unarmed == [armed |-> FALSE, left |-> 0, captured |-> ""]

\* The 'input' listener: the timer after the event. The first script of script.js
\* and part_000 restart it only when the trimmed text differs from lastContent;
\* debounce() of the second script and part_001's listener restart it always.
inputListener(v, timeout, last, currentContent) ==
    IF v \in {"script-1", "part_000"}
    THEN IF currentContent # last
         THEN [armed |-> TRUE, left |-> autoSaveWait(v), captured |-> currentContent]
         ELSE timeout
    ELSE [armed |-> TRUE, left |-> autoSaveWait(v), captured |-> ""]

\* autoSave up to its await: is a PATCH sent, is localStorage written at once.
autoSave1(content, online) == [fetch |-> content # "", store |-> FALSE]

autoSave2(content, online) == [fetch |-> online, store |-> ~online]

autoSaveP(content, online) ==
    [fetch |-> content # "" /\ online, store |-> content # "" /\ ~online]

autoSave(v, content, online) ==
    CASE v = "script-1" -> autoSave1(content, online)
      [] v = "script-2" -> autoSave2(content, online)
      [] OTHER -> autoSaveP(content, online)

\* autoSave after its await: is localStorage written (with the date and content
\* read before the await).
autoSaveAfter(v, threw) == IF v = "script-2" THEN TRUE ELSE ~threw

\* The user edits the text and the 'input' listener runs.
Input(I) ==
    \E c \in I.typed :
        /\ textarea' = c
        /\ saveTimeout' = inputListener(variant, saveTimeout, lastContent, Trim(c))
        /\ burst' = [since |-> 0, fired |-> 0, edited |-> TRUE, date |-> currentDate,
                     content |-> Trim(c)]
        /\ resp' = NoResp
        /\ done' = NoDone
        /\ UNCHANGED <<modal, storedDeviceId, lastContent, server, rows, nextId, pending, written,
                   deleted, variant, isOnline, cache, currentDate, tasks, replay>>

\* One second passes. A timer that is due runs before more time passes.
Tick ==
    /\ burst.edited
    /\ burst.since < MaxQuiet
    /\ ~(saveTimeout.armed /\ saveTimeout.left = 0)
    /\ saveTimeout' = IF saveTimeout.armed
                      THEN [saveTimeout EXCEPT !.left = @ - 1] ELSE saveTimeout
    /\ burst' = [burst EXCEPT !.since = @ + 1]
    /\ resp' = NoResp
    /\ done' = NoDone
    /\ UNCHANGED <<modal, storedDeviceId, lastContent, server, rows, nextId, pending, written,
                   deleted, variant, isOnline, cache, currentDate, textarea, tasks, replay>>

\* The timer's callback: autoSave up to its await (and lastContent = currentContent
\* in the listeners that keep one).
TimerFires ==
    /\ saveTimeout.armed /\ saveTimeout.left = 0
    /\ tasks["auto"].st = "idle"
    /\ LET content == Trim(textarea)
           s == autoSave(variant, content, isOnline)
       IN /\ tasks' = IF s.fetch
                      THEN [tasks EXCEPT !["auto"] = Sent(currentDate, content, <<>>)]
                      ELSE tasks
          /\ cache' = IF s.store THEN setItem(cache, currentDate, content) ELSE cache
          /\ done' = IF s.fetch THEN NoDone
                     ELSE Finished("auto", currentDate, content,
                                   IF s.store THEN "offline" ELSE "refused", "")
          /\ \E generated \in generateUUID :
                 storedDeviceId' = IF s.fetch
                                   THEN apiRequestDeviceId(variant, storedDeviceId, generated)
                                   ELSE storedDeviceId
    /\ lastContent' = IF variant \in {"script-1", "part_000"}
                      THEN saveTimeout.captured ELSE lastContent
    /\ saveTimeout' = Unarmed
    /\ burst' = [burst EXCEPT !.fired = IF @ < 2 THEN @ + 1 ELSE @]
    /\ resp' = NoResp
    /\ UNCHANGED <<modal, server, rows, nextId, pending, written, deleted,
                   variant, isOnline, currentDate, textarea, replay>>

\* autoSave resumes after its await.
AutoSaveDone ==
    /\ tasks["auto"].st \in {"answered", "failed"}
    /\ LET t == tasks["auto"]
           threw == requestThrows(variant, t.st, t.status)
       IN /\ cache' = IF autoSaveAfter(variant, threw)
                      THEN setItem(cache, t.date, t.content) ELSE cache
          /\ done' = Finished("auto", t.date, t.content,
                              IF threw THEN "failed" ELSE "stored", "")
    /\ tasks' = [tasks EXCEPT !["auto"] = Idle]
    /\ resp' = NoResp
    /\ UNCHANGED <<modal, storedDeviceId, timers, server, rows, nextId, pending, written,
                   deleted, variant, isOnline, currentDate, textarea, replay>>

\* The page's script is evaluated: currentDate, the identity code, isOnline. Nothing
\* is shown to the user.
Startup ==
    /\ currentDate = ""
    /\ currentDate' = "2024-01-01"
    /\ \E generated \in generateUUID :
           storedDeviceId' = startup(variant, storedDeviceId, generated)
    /\ isOnline' = TRUE
    /\ done' = Finished("start", "", "", "", "")
    /\ resp' = NoResp
    /\ UNCHANGED <<modal, timers, server, rows, nextId, pending, written, deleted, variant, cache,
                   textarea, tasks, replay>>

ClientInputs == [typed |-> {"a", " b", " "}]

\* The page has loaded; localStorage may hold an entry of an earlier session.
InitClient ==
    /\ variant \in Variants
    /\ isOnline = TRUE
    /\ cache \in {{}, {[date |-> "2024-01-02", content |-> "b"]}}
    /\ currentDate = "2024-01-01"
    /\ textarea = ""
    /\ tasks = [k \in {"save", "sync"} |-> Idle]
    /\ done = NoDone
    /\ replay = [phase |-> "none", ok |-> TRUE]
    /\ storedDeviceId = DevP
    /\ NoTimer

NextClient ==
    \/ UserTypes(ClientInputs)
    \/ SaveClick
    \/ SaveDone
    \/ OnlineEvent
    \/ SyncStep
    \/ OfflineEvent
    \/ Fetch
    \/ FetchFails
    \/ PatchWrite

InitWithClient == InitStore /\ InitClient

SpecClient == InitWithClient /\ [][NextClient]_vars

----------------------------------------------------------------------------
(* Typing with the auto-save timer, no explicit save *)

InitAutoSave ==
    /\ InitStore
    /\ variant \in Variants
    /\ isOnline = TRUE
    /\ cache = {}
    /\ currentDate = "2024-01-01"
    /\ textarea = ""
    /\ tasks = [k \in {"save", "sync", "auto"} |-> Idle]
    /\ done = NoDone
    /\ replay = [phase |-> "none", ok |-> TRUE]
    /\ storedDeviceId = DevP
    /\ NoTimer

NextAutoSave ==
    \/ Input(ClientInputs)
    \/ Tick
    \/ TimerFires
    \/ AutoSaveDone
    \/ OnlineEvent
    \/ SyncStep
    \/ OfflineEvent
    \/ Fetch
    \/ FetchFails
    \/ PatchWrite

SpecAutoSave == InitAutoSave /\ [][NextAutoSave]_vars

----------------------------------------------------------------------------
(* The history modal *)

\* showHistory up to its await: is the list requested from the server (else the
\* local entries are displayed at once).
showHistory(v, online) == v = "script-1" \/ online

\* loadHistoryFromLocalStorage of the second script: blank items are left out and
\* the others are trimmed.
loadHistoryFromLocalStorage(C) ==
    getLocalEntries({[date |-> e.date, content |-> Trim(e.content)] :
                        e \in {x \in C : Trim(x.content) # ""}})

\* The entries shown when the list was not taken from the server.
localHistory(v, C) ==
    CASE v = "script-1" -> <<>>
      [] v = "script-2" -> loadHistoryFromLocalStorage(C)
      [] OTHER -> getLocalEntries(C)

\* showHistory after its await: the entries handed to the modal. ok: the request
\* was answered with 200; list: the data of the answer.
showHistoryAfter(v, ok, list, C) ==
    IF ok THEN list ELSE localHistory(v, C)

\* content.substring(0, 100) + (content.length > 100 ? '...' : ''), on characters
substringWithMarker(s) ==
    SubSeq(s, 1, IF Len(s) < 100 THEN Len(s) ELSE 100)
        \o (IF Len(s) > 100 THEN <<".", ".", ".">> ELSE <<>>)

\* The text of the history-entry-content element, per script.
displayHistoryModal1(content) ==
    IF content # "" THEN substringWithMarker(Text(content))
    ELSE <<"N", "o", " ", "c", "o", "n", "t", "e", "n", "t">>

displayHistory(content) == Text(content)

displayHistoryModalP(content) == substringWithMarker(Text(content))

historyEntryContent(v, content) ==
    CASE v = "script-1" -> displayHistoryModal1(content)
      [] v = "script-2" -> displayHistory(content)
      [] OTHER -> displayHistoryModalP(content)

\* The modal appended to the document for these entries.
Modal(v, entries) ==
    [open |-> TRUE,
     entries |-> [i \in 1..Len(entries) |->
                    [date |-> entries[i].date, content |-> entries[i].content,
                     preview |-> historyEntryContent(v, entries[i].content)]]]

\* The user clicks the history button.
ShowHistory ==
    /\ tasks["history"].st = "idle"
    /\ IF showHistory(variant, isOnline)
       THEN /\ tasks' = [tasks EXCEPT !["history"] = Sent("", "", <<>>)]
            /\ done' = NoDone
            /\ modal' = modal
       ELSE /\ modal' = Modal(variant, localHistory(variant, cache))
            /\ done' = Finished("history", "", "", "offline", "")
            /\ tasks' = tasks
    /\ resp' = NoResp
    /\ UNCHANGED <<storedDeviceId, timers, server, rows, nextId, pending, written, deleted, variant,
                   isOnline, cache, currentDate, textarea, replay>>

\* showHistory resumes after its await.
HistoryDone ==
    /\ tasks["history"].st \in {"answered", "failed"}
    /\ LET t == tasks["history"]
           ok == t.st = "answered" /\ t.status = 200
       IN /\ modal' = Modal(variant, showHistoryAfter(variant, ok, t.queue, cache))
          /\ done' = Finished("history", "", "", IF ok THEN "ok" ELSE "failed", "")
    /\ tasks' = [tasks EXCEPT !["history"] = Idle]
    /\ resp' = NoResp
    /\ UNCHANGED <<storedDeviceId, timers, server, rows, nextId, pending, written, deleted, variant,
                   isOnline, cache, currentDate, textarea, replay>>

InitHistory ==
    /\ rows \in {{}, {[id |-> 1, date |-> "2024-01-01", content |-> "x*101",
                       device_id |-> DevP]}}
    /\ nextId = IF rows = {} THEN 1 ELSE 2
    /\ pending = EmptyBag
    /\ resp = NoResp
    /\ written = {}
    /\ deleted = {}
    /\ server = Development
    /\ variant \in Variants
    /\ isOnline = TRUE
    /\ cache \in {{[date |-> "2024-01-02", content |-> "x*100"]},
                  {[date |-> "2024-01-01", content |-> "a"],
                   [date |-> "2024-01-02", content |-> "x*101"]}}
    /\ currentDate = "2024-01-01"
    /\ textarea = ""
    /\ tasks = [k \in {"save", "sync", "history"} |-> Idle]
    /\ done = NoDone
    /\ replay = [phase |-> "none", ok |-> TRUE]
    /\ storedDeviceId = DevP
    /\ NoTimer

NextHistory ==
    \/ ShowHistory
    \/ HistoryDone
    \/ OnlineEvent
    \/ SyncStep
    \/ OfflineEvent
    \/ Fetch
    \/ FetchFails
    \/ PatchWrite

SpecHistory == InitHistory /\ [][NextHistory]_vars

----------------------------------------------------------------------------
(* Moving between two days, with an entry of an earlier session *)

LoadInputs == [typed |-> {"a"}]

InitLoad ==
    /\ rows \in {{}, {[id |-> 1, date |-> "2024-01-01", content |-> "a",
                       device_id |-> DevP]}}
    /\ nextId = IF rows = {} THEN 1 ELSE 2
    /\ pending = EmptyBag
    /\ resp = NoResp
    /\ written = {}
    /\ deleted = {}
    /\ server = Development
    /\ variant \in Variants
    /\ isOnline = TRUE
    /\ cache = {[date |-> "2024-01-02", content |-> "b"]}
    /\ currentDate = "2024-01-01"
    /\ textarea = ""
    /\ tasks = [k \in {"save", "sync", "load"} |-> Idle]
    /\ done = NoDone
    /\ replay = [phase |-> "none", ok |-> TRUE]
    /\ storedDeviceId = DevP
    /\ NoTimer

NextLoad ==
    \/ UserTypes(LoadInputs)
    \/ NavigateDay
    \/ LoadDone
    \/ OnlineEvent
    \/ SyncStep
    \/ OfflineEvent
    \/ Fetch
    \/ FetchFails
    \/ PatchWrite

SpecLoad == InitLoad /\ [][NextLoad]_vars

----------------------------------------------------------------------------
(* Typing with the auto-save timer while moving between two days *)

InitAutoSaveAndLoad ==
    /\ rows \in {{}, {[id |-> 1, date |-> "2024-01-02", content |-> "b",
                       device_id |-> DevP]}}
    /\ nextId = IF rows = {} THEN 1 ELSE 2
    /\ pending = EmptyBag
    /\ resp = NoResp
    /\ written = {}
    /\ deleted = {}
    /\ server = Development
    /\ variant \in Variants
    /\ isOnline = TRUE
    /\ cache = {}
    /\ currentDate = "2024-01-01"
    /\ textarea = ""
    /\ tasks = [k \in {"save", "sync", "auto", "load"} |-> Idle]
    /\ done = NoDone
    /\ replay = [phase |-> "none", ok |-> TRUE]
    /\ storedDeviceId = DevP
    /\ NoTimer

NextAutoSaveAndLoad ==
    \/ Input(LoadInputs)
    \/ Tick
    \/ TimerFires
    \/ AutoSaveDone
    \/ NavigateDay
    \/ LoadDone
    \/ Fetch
    \/ FetchFails
    \/ PatchWrite

SpecAutoSaveAndLoad == InitAutoSaveAndLoad /\ [][NextAutoSaveAndLoad]_vars

----------------------------------------------------------------------------
(* Moving between two days faster than the store answers *)

InitOverlap ==
    /\ rows = {[id |-> 1, date |-> "2024-01-01", content |-> "a", device_id |-> DevP],
               [id |-> 2, date |-> "2024-01-02", content |-> "b", device_id |-> DevP]}
    /\ nextId = 3
    /\ pending = EmptyBag
    /\ resp = NoResp
    /\ written = {}
    /\ deleted = {}
    /\ server = Development
    /\ variant \in Variants
    /\ isOnline = TRUE
    /\ cache \in {{}, {[date |-> "2024-01-02", content |-> "b"]}}
    /\ currentDate = "2024-01-01"
    /\ textarea = ""
    /\ tasks = [k \in {"save", "sync"} \cup Loads |-> Idle]
    /\ done = NoDone
    /\ replay = [phase |-> "none", ok |-> TRUE]
    /\ storedDeviceId = DevP
    /\ NoTimer

NextOverlap ==
    \/ NavigateDay
    \/ LoadDone
    \/ Fetch
    \/ FetchFails

SpecOverlap == InitOverlap /\ [][NextOverlap]_vars

----------------------------------------------------------------------------
(* Writing offline, reconnecting, moving between two days and saving; the user
   never empties the editor *)

InitLoadAndSave ==
    /\ InitStore
    /\ variant \in Variants
    /\ isOnline = FALSE
    /\ cache = {}
    /\ currentDate = "2024-01-01"
    /\ textarea = ""
    /\ tasks = [k \in {"save", "sync", "load"} |-> Idle]
    /\ done = NoDone
    /\ replay = [phase |-> "none", ok |-> TRUE]
    /\ storedDeviceId = DevP
    /\ NoTimer

NextLoadAndSave ==
    \/ UserTypes(LoadInputs)
    \/ NavigateDay
    \/ LoadDone
    \/ SaveClick
    \/ SaveDone
    \/ OnlineEvent
    \/ SyncStep
    \/ Fetch
    \/ FetchFails
    \/ PatchWrite

SpecLoadAndSave == InitLoadAndSave /\ [][NextLoadAndSave]_vars

----------------------------------------------------------------------------
(* Saving while entries are deleted from the store *)

\* The request of api.deleteEntry(date) for either day.
ApiDelete ==
    [dates |-> {"2024-01-01", "2024-01-02"},
     ends |-> {""},
     contents |-> {""},
     hdrs |-> {clientDeviceId},
     qrys |-> {""},
     mints |-> {DevMinted},
     from |-> "ext"]

NextDelete ==
    \/ UserTypes(LoadInputs)
    \/ SaveClick
    \/ SaveDone
    \/ OnlineEvent
    \/ SyncStep
    \/ OfflineEvent
    \/ Fetch
    \/ FetchFails
    \/ PatchWrite
    \/ DeleteCheck(ApiDelete)
    \/ DeleteWrite

SpecDelete == InitWithClient /\ [][NextDelete]_vars

----------------------------------------------------------------------------
(* The page is opened with any persisted identity: none, a malformed one, a UUID *)

InitStartup ==
    /\ InitStore
    /\ variant \in Variants
    /\ isOnline = TRUE
    /\ cache = {}
    /\ currentDate = ""
    /\ textarea = ""
    /\ tasks = [k \in {"save", "sync"} |-> Idle]
    /\ done = NoDone
    /\ replay = [phase |-> "none", ok |-> TRUE]
    /\ storedDeviceId \in {"", DevBad, DevP}
    /\ NoTimer

NextStartup ==
    \/ Startup
    \/ (currentDate # "" /\ NextClient)

SpecStartup == InitStartup /\ [][NextStartup]_vars

----------------------------------------------------------------------------
(* Properties of the entry store *)

\* The YYYY-MM-DD shape, position by position.
MatchesYMD(date) ==
    LET t == Chars[date]
    IN /\ Len(t) = 10
       /\ t[5] = "-" /\ t[8] = "-"
       /\ \A i \in {1, 2, 3, 4, 6, 7, 9, 10} : t[i] \in Digits

StoredDates == {"2024-01-01", "2024-01-02", "2024-13-40"}

Partitions == {DevP, DevQ, DevMinted}

\* What a get(date, deviceId) issued on table T is answered.
GetNow(T, date, deviceId) ==
    GetEntryRoute(T, date, [deviceId |-> deviceId, header |-> "", given |-> deviceId])

HasRow(T, date, deviceId) == Matching(T, date, deviceId) # {}

C2_ReplayConverges ==
    (/\ replay.phase = "finished"
     /\ replay.ok
     /\ isOnline
     /\ \A k \in DOMAIN tasks : tasks[k].st = "idle"
     /\ pending = EmptyBag)
    => \A e \in cache :
           \E r \in Matching(rows, e.date, clientDeviceId) : r.content = e.content

\* C3: When an explicit save of content c for date d finishes (offline, online with
\* the store write succeeding, online with the store write failing), the Local
\* Cache record for d equals c. Stated for the clients whose save tests the online
\* flag (script.js 911-940, part_000, part_001).
C3_SaveLeavesCache ==
    (/\ variant \in {"script-2", "part_000", "part_001"}
     /\ done.kind = "save"
     /\ done.case \in {"offline", "stored", "failed"})
    => \E e \in cache : e.date = done.date /\ e.content = done.content

\* C4: the table never holds two rows with the same (date, device_id).
C4_OneRowPerKey ==
    \A r1 \in rows, r2 \in rows :
        (r1.date = r2.date /\ r1.device_id = r2.device_id) => r1 = r2

\* A second insert for a key was attempted and refused, one row remaining.
C4_Witness ==
    /\ resp.op \in {"post", "patch"} /\ resp.status = 500
    /\ Cardinality(Matching(rows, resp.date, resp.deviceId)) = 1

\* C5: a create whose existence check returned a row is answered 409 and leaves the
\* table, hence the stored content, as it was.
C5_CreateConflict ==
    [][(resp'.op = "post" /\ resp'.seen)
       => (resp'.status = 409 /\ rows' = rows)]_vars

\* A create of c2 answered 409 over stored content c1 # c2, c1 still stored.
C5_Witness ==
    /\ resp.op = "post" /\ resp.status = 409
    /\ resp.before # "" /\ resp.before # resp.content
    /\ getRow(rows, resp.date, resp.deviceId).content = resp.before

\* C6: a get with a well-formed date on a partition under which nothing was ever
\* inserted is answered 404 and leaves the table as it was.
C6_GetUnwrittenPartition ==
    [][(/\ resp'.op = "get"
        /\ MatchesYMD(resp'.date)
        /\ resp'.deviceId \in Partitions
        /\ resp'.deviceId \notin written)
       => (resp'.status = 404 /\ rows' = rows)]_vars

\* A get on an unwritten partition while another partition holds that date.
C6_Witness ==
    /\ resp.op = "get" /\ resp.status = 404
    /\ resp.deviceId \notin written
    /\ \E r \in rows : r.date = resp.date /\ r.device_id # resp.deviceId

\* C7: right after a delete(d, p) answered 200 a get(d, p) is answered 404, and a key
\* whose get is answered 404 keeps that answer in every step except the successful
\* write of a create or an upsert for that key.
C7_DeletedStaysNotFound ==
    [][\A d \in StoredDates, p \in Partitions :
          /\ (resp'.op = "delete" /\ resp'.status = 200
                  /\ resp'.date = d /\ resp'.deviceId = p)
             => GetNow(rows', d, p).status = 404
          /\ (GetNow(rows, d, p).status = 404 /\ GetNow(rows', d, p).status # 404)
             => (/\ resp'.op \in {"post", "patch"}
                 /\ resp'.status \in {200, 201}
                 /\ resp'.date = d /\ resp'.deviceId = p)]_vars

\* A delete answered 200 that removed a row.
C7_Witness ==
    /\ resp.op = "delete" /\ resp.status = 200 /\ resp.before # ""
    /\ GetNow(rows, resp.date, resp.deviceId).status = 404

\* C8: an upsert(d, c, p) whose existence check returned the row and whose write runs
\* when (d, p) already holds c (the state a first upsert(d, c, p) leaves) is answered
\* 200 and leaves the table as it was: same rows, same content.
C8_UpsertIdempotent ==
    [][(/\ resp'.op = "patch"
        /\ resp'.seen
        /\ \E r \in Matching(rows, resp'.date, resp'.deviceId) : r.content = resp'.content)
       => (resp'.status = 200 /\ rows' = rows)]_vars

\* The repeated upsert has been answered.
C8_Witness ==
    /\ resp.op = "patch" /\ resp.status = 200 /\ resp.seen
    /\ resp.before = resp.content
    /\ getRow(rows, resp.date, resp.deviceId).content = resp.content

\* C9: the entries answered by list and by rangeQuery are in strictly descending
\* date order.
C9_DescendingOrder ==
    (resp.op \in {"list", "range"} /\ resp.status = 200)
    => \A i \in 1..(Len(resp.list) - 1) :
           TextLess(resp.list[i + 1].date, resp.list[i].date)

\* A range query answered with two entries.
C9_Witness ==
    resp.op = "range" /\ resp.status = 200 /\ Len(resp.list) = 2

\* C10: a get, create, replace, upsert, delete or rangeQuery whose date (either date
\* of a rangeQuery) does not have the YYYY-MM-DD shape is answered 400 without having
\* run any statement against the table.
C10_MalformedDateRejected ==
    (/\ resp.op \in {"get", "post", "put", "patch", "delete", "range"}
     /\ ~MatchesYMD(resp.date) \/ (resp.op = "range" /\ ~MatchesYMD(resp.end)))
    => (resp.status = 400 /\ resp.acc = 0)

\* A delete with an over-long date refused while the table holds rows.
C10_Witness ==
    /\ resp.op = "delete" /\ resp.date = "2024-01-011"
    /\ resp.status = 400 /\ resp.acc = 0
    /\ rows # {}

ImpossibleDate(date) ==
    MatchesYMD(date) /\ (MonthOf(date) \notin 1..12 \/ DayOf(date) \notin 1..31)

DateOps == {"get", "post", "put", "patch", "delete", "range"}

\* C11: an entry operation given a date of the right shape with an impossible month
\* or day ("2024-13-40") is answered 400 and has run no statement against the table.
C11_ImpossibleDateRejected ==
    (/\ resp.op \in DateOps
     /\ ImpossibleDate(resp.date) \/ (resp.op = "range" /\ ImpossibleDate(resp.end)))
    => (resp.status = 400 /\ resp.acc = 0)

Keys(T) == {<<r.date, r.device_id>> : r \in T}

\* The requests of kind op that entered the wait for their write in this step.
Arrived(op) ==
    {r \in BagToSet(pending') :
        r.op = op /\ pending'[r] > (IF r \in BagToSet(pending) THEN pending[r] ELSE 0)}

\* C12: a replace(d, c, p) with content and a well-formed date that arrives when
\* (d, p) has no row is answered 404 in that step, never held for a write, and the
\* table is unchanged; no step of a replace adds a key to the table.
C12_ReplaceMissing ==
    [][/\ (resp'.op = "put" /\ resp'.status # 400 /\ ~resp'.seen)
            => (/\ ~HasRow(rows, resp'.date, resp'.deviceId)
                /\ resp'.status = 404
                /\ rows' = rows)
       /\ \A r \in Arrived("put") : HasRow(rows, r.date, r.deviceId)
       /\ resp'.op = "put" => Keys(rows') = Keys(rows)]_vars

\* C12 witness: a replace on a key without a row was answered 404 while the table
\* holds a row under another key.
C12_Witness ==
    /\ resp.op = "put"
    /\ resp.status = 404
    /\ rows # {}
    /\ ~HasRow(rows, resp.date, resp.deviceId)

\* C13: a delete(d, p) with a well-formed date that arrives when (d, p) has no row is
\* answered 404 in that step, never held for a write, and the table is unchanged.
C13_DeleteMissing ==
    [][/\ (resp'.op = "delete" /\ resp'.status # 400 /\ ~resp'.seen)
            => (/\ ~HasRow(rows, resp'.date, resp'.deviceId)
                /\ resp'.status = 404
                /\ rows' = rows)
       /\ \A r \in Arrived("delete") : HasRow(rows, r.date, r.deviceId)]_vars

\* C13 witness: a delete on a key without a row was answered 404 while the table
\* holds a row under another key.
C13_Witness ==
    /\ resp.op = "delete"
    /\ resp.status = 404
    /\ rows # {}
    /\ ~HasRow(rows, resp.date, resp.deviceId)

\* A rangeQuery that passed the device test and was not turned away as disabled.
RangeAnswered ==
    /\ resp.op = "range"
    /\ validateDeviceId(resp.deviceId)
    /\ resp.status # 503
    /\ MatchesYMD(resp.date) /\ MatchesYMD(resp.end)

\* C14: a rangeQuery with two well-formed dates and start > end is answered 400 and
\* has run no statement against the table.
C14_InvertedRangeRejected ==
    (RangeAnswered /\ TextLess(resp.end, resp.date))
    => (resp.status = 400 /\ resp.acc = 0)

\* C15: a rangeQuery with two well-formed dates and start <= end is answered 200 with
\* exactly the rows of its partition whose date lies in [start, end].
C15_RangeExact ==
    (RangeAnswered /\ TextLeq(resp.date, resp.end))
    => /\ resp.status = 200
       /\ {resp.list[i] : i \in 1..Len(resp.list)}
              = {r \in rows : /\ r.device_id = resp.deviceId
                              /\ TextLeq(resp.date, r.date)
                              /\ TextLeq(r.date, resp.end)}

\* The store is administratively disabled.
StoreDisabled == server.routes = "part_006" /\ server.NODE_ENV = "production"

\* C18: with the router of part_006 mounted and NODE_ENV = production, every entry
\* endpoint called with a valid device identity is answered 503 having run no
\* statement against the table; the table stays empty and no request waits for a write.
C18_DisabledStore ==
    StoreDisabled
    => /\ (resp.op # "none" /\ validateDeviceId(resp.deviceId))
              => (resp.status = 503 /\ resp.acc = 0)
       /\ rows = {}
       /\ pending = EmptyBag

\* C18 witness: under production an upsert with content and a well-formed date, sent
\* with a valid device identity, was answered 503.
C18_Witness ==
    /\ StoreDisabled
    /\ resp.op = "patch"
    /\ resp.content # ""
    /\ MatchesYMD(resp.date)
    /\ validateDeviceId(resp.deviceId)
    /\ resp.status = 503

\* The rows of table T outside partition deviceId.
Others(T, deviceId) == {r \in T : r.device_id # deviceId}

\* C16: a list, get or rangeQuery answered under device identity p returns only rows
\* of p, and no step taken for a request of p (create, replace, upsert, delete, or a
\* read) adds, removes or changes a row of another partition.
C16_PartitionsIsolated ==
    [][/\ resp'.op \in {"list", "range"}
            => \A i \in 1..Len(resp'.list) : resp'.list[i].device_id = resp'.deviceId
       /\ (resp'.op = "get" /\ resp'.status = 200)
            => resp'.data.device_id = resp'.deviceId
       /\ resp'.op # "none"
            => Others(rows', resp'.deviceId) = Others(rows, resp'.deviceId)
       /\ resp'.op = "none" => rows' = rows]_vars

\* C16 witness: a replace under one device identity succeeded while another partition
\* holds a row of the same date with other content.
C16_Witness ==
    /\ resp.op = "put"
    /\ resp.status = 200
    /\ \E r \in Others(rows, resp.deviceId) :
           r.date = resp.date /\ r.content # resp.content

\* C17: when an explicit save whose store write failed finishes (the editor still
\* showing the saved text), the Local Cache record of its date holds the content and
\* the user is shown the 'saved locally' outcome, not an error.
C17_FailedSaveFallsBack ==
    (/\ done.kind = "save"
     /\ done.case = "failed"
     /\ Trim(textarea) = done.content)
    => /\ \E e \in cache : e.date = done.date /\ e.content = done.content
       /\ done.shows = "saved-locally"

\* C19: a create, replace or upsert without content (and a create without a date) is
\* answered 400 having run no statement against the table, the table is unchanged,
\* and no such request ever waits for a write.
C19_MissingFieldRejected ==
    [][/\ (/\ resp'.op \in {"post", "put", "patch"}
           /\ resp'.content = "" \/ (resp'.op = "post" /\ resp'.date = ""))
            => (resp'.status = 400 /\ resp'.acc = 0 /\ rows' = rows)
       /\ \A r \in BagToSet(pending') :
              r.op \in {"post", "put", "patch"} => (r.content # "" /\ r.date # "")]_vars

\* C19 witness: an upsert with empty content on a key that holds an entry was
\* answered 400, the entry still holding its content.
C19_Witness ==
    /\ resp.op = "patch"
    /\ resp.content = ""
    /\ resp.status = 400
    /\ \E r \in Matching(rows, resp.date, resp.deviceId) : r.content # ""

\* The requests that entered the wait for their write in this step.
Held ==
    {r \in BagToSet(pending') :
        pending'[r] > (IF r \in BagToSet(pending) THEN pending[r] ELSE 0)}

\* C20: a request that carries neither an X-Device-ID header nor a deviceId query
\* parameter is given a well-formed UUID that no stored row carries when it arrives;
\* its answer returns that value in the X-Device-ID header, and every row it reads,
\* returns, adds, changes or removes belongs to that value's partition.
C20_MintedIdentity ==
    [][/\ (resp'.op # "none" /\ resp'.given = "")
            => /\ uuidRegexTest(resp'.deviceId)
               /\ resp'.header = resp'.deviceId
               /\ \A r \in (rows' \ rows) \cup (rows \ rows') :
                      r.device_id = resp'.deviceId
               /\ resp'.data # NoRow => resp'.data.device_id = resp'.deviceId
               /\ \A i \in DOMAIN resp'.list : resp'.list[i].device_id = resp'.deviceId
               /\ pending' = pending => \A r \in rows : r.device_id # resp'.deviceId
       /\ \A r \in Held :
              r.given = "" => /\ uuidRegexTest(r.deviceId)
                              /\ r.header = r.deviceId
                              /\ \A t \in rows : t.device_id # r.deviceId]_vars

\* C20 witness: a create without identity was answered 201 with a minted identity in
\* the header and its row is stored under that identity, beside a row of another
\* partition.
C20_Witness ==
    /\ resp.op = "post"
    /\ resp.given = ""
    /\ resp.status = 201
    /\ resp.header \in {DevMinted, DevMinted2}
    /\ \E r \in rows : r.device_id = resp.header /\ r.date = resp.date
    /\ \E r \in rows : r.device_id # resp.header

\* C22: an upsert whose check found no row is held for an insert, also when another
\* upsert for the same key is already held for one; when its write then finds the row
\* another request inserted meanwhile, it is answered as a failure (500) and the row
\* keeps the content it had.
C22_UpsertRace ==
    [][/\ (/\ resp'.op = "patch" /\ resp'.acc = 2 /\ ~resp'.seen
           /\ Matching(rows, resp'.date, resp'.deviceId) # {})
            => (resp'.status = 500 /\ rows' = rows)
       /\ \A r \in Held :
              r.op = "patch" => (r.existing <=> Matching(rows, r.date, r.deviceId) # {})]_vars

\* C22 witness: an upsert that saw no row was answered 500 while the row, inserted by
\* another upsert, holds other content than its own.
C22_Witness ==
    /\ resp.op = "patch"
    /\ ~resp.seen
    /\ resp.status = 500
    /\ \E r \in Matching(rows, resp.date, resp.deviceId) : r.content # resp.content
    /\ written # {}

\* A replace or an upsert whose update statement ran on key (date, deviceId) in
\* the step and was answered 200.
UpdateApplied(date, deviceId) ==
    /\ resp'.op \in {"put", "patch"}
    /\ resp'.acc = 2
    /\ resp'.status = 200
    /\ resp'.date = date
    /\ resp'.deviceId = deviceId

\* C23: a replace or upsert whose update is applied to an existing key leaves the key
\* holding its content, and the content of a key that stays present changes in no
\* other step; so once all writes have completed the key holds the content of the
\* update applied last.
C23_LastWriterWins ==
    [][\A r \in rows :
           LET after == Matching(rows', r.date, r.device_id)
           IN /\ UpdateApplied(r.date, r.device_id)
                  => (after # {} /\ \A t \in after : t.content = resp'.content)
              /\ (\E t \in after : t.content # r.content)
                  => UpdateApplied(r.date, r.device_id)]_vars

\* C23 witness: a replace has overwritten content written after its own check ran,
\* while another write to the same key is still in flight.
C23_Witness ==
    /\ resp.op = "put"
    /\ resp.status = 200
    /\ resp.before # resp.content
    /\ \E r \in Matching(rows, resp.date, resp.deviceId) : r.content = resp.content
    /\ \E r \in BagToSet(pending) :
           /\ r.op \in {"put", "patch"}
           /\ r.date = resp.date /\ r.deviceId = resp.deviceId
           /\ r.content # resp.content

\* C30: a row of key (d, p) is absent after a step only when the step is the
\* deleteEntry statement of a delete for exactly (d, p), answered 200.
C30_RowsStay ==
    [][\A r \in rows :
           Matching(rows', r.date, r.device_id) = {}
           => /\ resp'.op = "delete" /\ resp'.acc = 2 /\ resp'.status = 200
              /\ resp'.date = r.date
              /\ resp'.deviceId = r.device_id]_vars

\* C30 witness: a delete on a date succeeded in one partition while the row of the
\* same date in another partition is still stored.
C30_Witness ==
    /\ resp.op = "delete"
    /\ resp.status = 200
    /\ Matching(rows, resp.date, resp.deviceId) = {}
    /\ \E r \in rows : r.date = resp.date /\ r.device_id # resp.deviceId

\* C24: the replay's queue is every cached entry exactly once; when the replay
\* resumes after an upsert, failed or not, it sends the next queued entry (or ends
\* when none is left) and leaves the table and the cache as they are; no other step
\* changes what the replay has queued, and no step removes a row.
C24_ReplayGoesOn ==
    [][LET t == tasks["sync"]
           u == tasks'["sync"]
           all == <<[date |-> u.date, content |-> u.content]>> \o u.queue
       IN /\ (t.st = "idle" /\ u.st # "idle")
              => /\ u.st = "sent"
                 /\ Len(all) = Cardinality(cache)
                 /\ {all[i] : i \in DOMAIN all} = cache
          /\ (t.st \in {"answered", "failed"} /\ u # t)
              => /\ rows' = rows
                 /\ cache' = cache
                 /\ u = IF t.queue = <<>> THEN Idle
                        ELSE Sent(t.queue[1].date, t.queue[1].content, Tail(t.queue))
          /\ t.st \in {"sent", "held"}
              => (u.st # "idle" /\ u.date = t.date /\ u.content = t.content
                  /\ u.queue = t.queue)
          /\ \A r \in rows : Matching(rows', r.date, r.device_id) # {}]_vars

\* C24 witness: the replay's upsert for its second entry has just inserted the row
\* and been answered 200, after its upsert for the first entry failed (that entry is
\* cached, only the replay sends its date, and its row is missing).
C24_Witness ==
    /\ tasks["sync"].st = "answered"
    /\ tasks["sync"].date = "2024-01-01"
    /\ tasks["save"].st = "idle"
    /\ resp.op = "patch" /\ resp.status = 200 /\ ~resp.seen
    /\ resp.date = "2024-01-01"
    /\ \E e \in cache : e.date = "2024-01-02" /\ Matching(rows, e.date, clientDeviceId) = {}

\* C25: a step that takes the online flag from true to false changes nothing else of
\* the client or the store: no request is sent, no cache record and no row changes.
C25_OfflineOnlyFlips ==
    [][(isOnline /\ ~isOnline')
        => /\ cache' = cache
           /\ rows' = rows
           /\ pending' = pending
           /\ tasks' = tasks
           /\ textarea' = textarea
           /\ currentDate' = currentDate
           /\ storedDeviceId' = storedDeviceId]_vars

\* C25 witness: the client is offline with a cached entry and a save whose request
\* was sent before the flag fell.
C25_Witness ==
    /\ ~isOnline
    /\ cache # {}
    /\ tasks["save"].st = "sent"

\* C21: once the client's script has been evaluated the value persisted under
\* deviceId is a well-formed UUID, and start-up shows the user nothing.
C21_PersistedIdentityWellFormed ==
    /\ currentDate # "" => uuidRegexTest(storedDeviceId)
    /\ done.kind = "start" => done.shows = ""

\* C26: an auto-save that has finished with non-empty content c for date d leaves
\* the cache record of d equal to c, whether its PATCH succeeded or failed.
C26_AutoSaveLeavesCache ==
    (done.kind = "auto" /\ done.content # "")
    => \E e \in cache : e.date = done.date /\ e.content = done.content

\* C27: the timer's callback runs only when the quiet interval has passed since the
\* last edit and no auto-save has run since that edit; and once more than the quiet
\* interval has passed since an edit, one auto-save has run.
C27_DebounceCoalesces ==
    [][/\ burst'.fired > burst.fired
           => (burst.since >= autoSaveWait(variant) /\ burst.fired = 0)
       /\ (burst'.edited /\ burst'.since > autoSaveWait(variant)) => burst'.fired = 1]_vars

\* C28: a loadDiaryEntry for date d that ran offline, or whose store read failed
\* otherwise than by NotFound, ends with the editor showing the cache record of d
\* (nothing when there is none).
C28_LoadFallsBackToCache ==
    (done.kind = "load" /\ done.case \in {"offline", "failed"})
    => textarea = getItem(cache, done.date)

\* C29: the step in which a delete is answered 200 leaves the cache as it is, and no
\* step takes from the cache the record of a date that has one.
C29_CacheRecordsStay ==
    [][/\ (resp'.op = "delete" /\ resp'.status = 200) => cache' = cache
       /\ \A e \in cache : \E f \in cache' : f.date = e.date]_vars

\* C29 witness: a delete for a date was answered 200, its row is gone, and the cache
\* still holds the record of that date beside the record of another date.
C29_Witness ==
    /\ resp.op = "delete"
    /\ resp.status = 200
    /\ Matching(rows, resp.date, resp.deviceId) = {}
    /\ \E e \in cache : e.date = resp.date
    /\ \E e \in cache : e.date # resp.date

\* C33: a create is answered 201 or 409 (or 400 when malformed), never 500, however
\* two creates for one absent key interleave.
C33_CreateRaceNoFailure ==
    resp.op = "post" => resp.status \in {201, 400, 409}

\* C38: a request that carries an identity that is not a well-formed UUID is answered
\* 400 without a statement on the table and is never held for a write, and no row is
\* ever stored under such an identity.
C38_MalformedIdentityRejected ==
    /\ (resp.op # "none" /\ resp.given # "" /\ ~uuidRegexTest(resp.given))
        => (resp.status = 400 /\ resp.acc = 0)
    /\ \A r \in BagToSet(pending) : uuidRegexTest(r.deviceId)
    /\ \A r \in rows : uuidRegexTest(r.device_id)

\* C38 witness: an upsert sent with a malformed identity was answered 400 while the
\* table holds a row written under a well-formed one.
C38_Witness ==
    /\ resp.op = "patch"
    /\ resp.given = DevBad
    /\ resp.status = 400
    /\ rows # {}

\* The dates and contents of a list of entries.
Listed(entries) ==
    [i \in 1..Len(entries) |-> [date |-> entries[i].date, content |-> entries[i].content]]

\* showHistory displays its list in this step.
HistoryShown ==
    /\ "history" \in DOMAIN tasks
    /\ done'.kind = "history"

C31_Sources ==
    HistoryShown =>
        /\ modal'.open
        /\ Listed(modal'.entries) =
              IF done'.case = "ok" THEN Listed(tasks["history"].queue)
              ELSE Listed(getLocalEntries(cache))

\* C31: showHistory lists the entries of the store's answer when the client is
\* online and the list request succeeds, and the entries of the local cache when
\* the client is offline or the list request fails.
C31_HistorySource == [][C31_Sources]_vars

\* C32: in the history modal an entry of at most 100 characters is previewed in
\* full, and a longer entry as its first 100 characters followed by '...'.
C32_PreviewTruncated ==
    \A i \in 1..Len(modal.entries) :
        LET s == Text(modal.entries[i].content)
        IN modal.entries[i].preview =
              IF Len(s) <= 100 THEN s ELSE SubSeq(s, 1, 100) \o <<".", ".", ".">>

\* The write of a request of the reconnect replay runs in this step.
ReplayWrites(r) ==
    /\ r.from = "sync"
    /\ r.op = "patch"
    /\ pending' = pending (-) SetToBag({r})

C36_Step ==
    \A r \in BagToSet(pending) :
        (/\ ReplayWrites(r)
         /\ getItem(cache, r.date) # r.content
         /\ getRow(rows, r.date, r.deviceId).content = getItem(cache, r.date))
            => getRow(rows', r.date, r.deviceId).content = getItem(cache, r.date)

\* C36: when a save made after the replay read the cache has put newer content for a
\* date into the cache and the store, the write of the replay's request for that date
\* leaves the store holding the newer content.
C36_ReplayKeepsNewerSave == [][C36_Step]_vars

C37_Step ==
    \A r \in BagToSet(pending) :
        (/\ ReplayWrites(r)
         /\ [date |-> r.date, device_id |-> r.deviceId] \in deleted
         /\ Matching(rows, r.date, r.deviceId) = {})
            => Matching(rows', r.date, r.deviceId) = {}

\* C37: the write of a request of the reconnect replay creates no row for a key whose
\* row a DELETE removed and which the user has not saved again since.
C37_DeletedStaysDeleted == [][C37_Step]_vars

C39_Step ==
    \A e \in cache : e.content # "" => getItem(cache', e.date) # ""

\* C39: while the user never empties the editor's text, no step replaces non-empty
\* content of a cache record by empty content or removes the record.
C39_CacheNotBlanked == [][C39_Step]_vars

\* autoSave reads the selected date and the editor's text in this step.
AutoSaveReads ==
    /\ saveTimeout.armed
    /\ ~saveTimeout'.armed

C34_Step ==
    (AutoSaveReads /\ Trim(textarea) = burst.content /\ burst.content # "")
        => /\ tasks'["auto"].st = "sent" => tasks'["auto"].date = burst.date
           /\ done'.kind = "auto" => done'.date = burst.date
           /\ \A e \in cache' \ cache : e.date = burst.date

\* C34: an auto-save that finds in the editor the text of the last edit sends it and
\* caches it under the date that was selected when the edit was made, also when
\* the user has moved to another date before the timer fired.
C34_AutoSaveKeepsDate == [][C34_Step]_vars

\* No call of loadDiaryEntry waits for its answer.
LoadsDone == \A k \in Loads \cap DOMAIN tasks : tasks[k].st = "idle"

\* C35: when the last of the overlapping calls of loadDiaryEntry has shown the
\* store's answer, the editor holds the store's content of the selected date.
C35_EditorShowsSelectedDate ==
    (LoadsDone /\ done.kind = "load" /\ done.case = "ok")
        => textarea = getRow(rows, currentDate, clientDeviceId).content

====
